---- MODULE Spec2Model ----
(***************************************************************************)
(* AosUnit protocol message schema (cloud_common.protocols.unit):         *)
(* validation (decode) and serialization (encode) of the records declared *)
(* in desired_status.py, state.py and header.py.                          *)
(*                                                                         *)
(* A JSON value is a tagged record; a decoded record is a TLA+ record     *)
(* whose fields carry the python field names.  Validation of a class is   *)
(* an operator   Class(b)   returning                                      *)
(*     [ok |-> BOOLEAN, errors |-> set of wire field names, rec |-> ...]   *)
(* following pydantic v2: only the alias is read from the wire, a default *)
(* is used unvalidated when the key is absent, an explicit null is         *)
(* validated against the annotated type, and all field errors are         *)
(* collected.                                                              *)
(***************************************************************************)
EXTENDS Integers, Sequences, FiniteSets, TLC

(* The field names of the JSON objects and of the records, in the order  *)
(* in which every record below lists its fields.                         *)
FieldNames ==
    [alg |-> 1, annotations |-> 2, asymAlg |-> 3, asym_alg |-> 4,
     blockAlg |-> 5, blockIv |-> 6, blockKey |-> 7, block_alg |-> 8,
     block_iv |-> 9, block_key |-> 10, certificate |-> 11,
     certificateChains |-> 12, certificate_chains |-> 13,
     certificates |-> 14, chainName |-> 15, chain_name |-> 16,
     checksum |-> 17, components |-> 18, data |-> 19, dayOfWeek |-> 20,
     day_of_week |-> 21, decryptionInfo |-> 22, decryption_info |-> 23,
     default |-> 24, digest |-> 25, end |-> 26, errors |-> 27, f |-> 28,
     fingerprint |-> 29, fingerprints |-> 30, fotaSchedule |-> 31,
     fota_schedule |-> 32, h |-> 33, header |-> 34, id |-> 35,
     instance |-> 36, instances |-> 37, issuer |-> 38, labels |-> 39,
     layers |-> 40, m |-> 41, messageType |-> 42, message_type |-> 43,
     name |-> 44, nodeId |-> 45, node_id |-> 46, nodes |-> 47,
     numInstances |-> 48, num_instances |-> 49, ocspValues |-> 50,
     ocsp_values |-> 51, ok |-> 52, priority |-> 53, providerId |-> 54,
     provider_id |-> 55, raw |-> 56, reason |-> 57, rec |-> 58,
     receiverInfo |-> 59, receiver_info |-> 60, result |-> 61, s |-> 62,
     serial |-> 63, serviceId |-> 64, service_id |-> 65, services |-> 66,
     sha256 |-> 67, size |-> 68, sotaSchedule |-> 69, sota_schedule |-> 70,
     start |-> 71, state |-> 72, stateChecksum |-> 73, subjectId |-> 74,
     subject_id |-> 75, systemId |-> 76, system_id |-> 77, t |-> 78,
     timeSlots |-> 79, time_slots |-> 80, timestamp |-> 81,
     timetable |-> 82, trustedTimestamp |-> 83, ttl |-> 84, type |-> 85,
     unitConfig |-> 86, unit_config |-> 87, urls |-> 88, v |-> 89,
     val |-> 90, value |-> 91, version |-> 92]

VARIABLES
    cls,    \* class of the last validation ("none" before any)
    body,   \* the JSON value given to that validation
    res,    \* its outcome
    wire,   \* the last serialized form (NoWire when nothing was serialized)
    back,   \* the outcome of validating `wire` again
    log     \* steps taken by the envelope handler for the current message

vars == <<cls, body, res, wire, back, log>>

----------------------------------------------------------------------------
(* Bounds of the model. *)

MaxBytes == 3      \* longest byte string fed to a binary field
MaxList == 2       \* longest list fed to timeSlots / timetable / labels
MaxEntries == 1    \* longest list fed to a top-level desiredStatus field

----------------------------------------------------------------------------
(* JSON values (wire side) *)

Absent == [t |-> "absent"]               \* key not present in the object
Null == [t |-> "null"]
JInt(i) == [t |-> "int", v |-> i]
JBool(b) == [t |-> "bool", v |-> b]
JStr(s) == [t |-> "str", v |-> s]        \* a string taken as a whole
Text(s) == [t |-> "text", v |-> s]       \* a string as its characters
JList(s) == [t |-> "list", v |-> s]
JObj(f) == [f |-> f, t |-> "obj"]

Get(b, k) == IF b.t = "obj" /\ k \in DOMAIN b.f THEN b.f[k] ELSE Absent

(* Python values (record side) *)

None == [t |-> "None"]
PyBytes(s) == [t |-> "bytes", v |-> s]
PyList(s) == [t |-> "pylist", v |-> s]

(* Outcome of validating one field, and of validating one object. *)

FOk(v) == [ok |-> TRUE, val |-> v]
FErr == [ok |-> FALSE, val |-> None]

NoRecord == [t |-> "norecord"]
NoResult == [errors |-> {}, ok |-> FALSE, rec |-> NoRecord]
NoWire == [t |-> "nowire"]

Result(errs, rec) ==
    IF errs = {} THEN [errors |-> {}, ok |-> TRUE, rec |-> rec]
    ELSE [errors |-> errs, ok |-> FALSE, rec |-> NoRecord]

NotAnObject == [errors |-> {"$"}, ok |-> FALSE, rec |-> NoRecord]

Bad(name, f) == IF f.ok THEN {} ELSE {name}

(* All sequences over S of length lo..hi. *)
SeqsUpTo(S, lo, hi) == UNION {[1..n -> S] : n \in lo..hi}

(* A list field, list[Item]: `outcomes` holds the outcome of validating  *)
(* each item.  Anything that is not a list, None included, is an error.  *)
Items(v) == IF v.t \in {"list", "pylist"} THEN 1..Len(v.v) ELSE {}

ListOf(v, outcomes) ==
    IF v.t # "list" THEN FErr
    ELSE IF \A i \in Items(v) : outcomes[i].ok
         THEN FOk(PyList([i \in Items(v) |-> outcomes[i].rec]))
         ELSE FErr

(* A nested model field, from the outcome of validating the nested object. *)
ModelOf(outcome) == IF outcome.ok THEN FOk(outcome.rec) ELSE FErr

(* A field declared with default=None: the default is used, unvalidated,  *)
(* only when the key is absent.                                            *)
DefaultNone(v, f) == IF v = Absent THEN FOk(None) ELSE f

(* A required field: an absent key is an error. *)
Required(v, f) == IF v = Absent THEN FErr ELSE f

(* int, given a JSON integer (coercion of numeric strings is not fed). *)
IntField(v) == IF v.t = "int" THEN FOk(v) ELSE FErr

(* str *)
StrField(v) == IF v.t \in {"str", "text"} THEN FOk(v) ELSE FErr

(* Literal[...] over strings *)
LiteralField(v, allowed) ==
    IF v.t = "str" /\ v.v \in allowed THEN FOk(v) ELSE FErr

----------------------------------------------------------------------------
(* Base64 (RFC 4648 alphabet by index 0..63, Pad for '=') as done by       *)
(* base64.b64encode / b64decode.                                           *)

Pad == 64

RECURSIVE B64Encode(_)
B64Encode(bs) ==
    IF Len(bs) = 0 THEN <<>>
    ELSE IF Len(bs) = 1
         THEN <<bs[1] \div 4, (bs[1] % 4) * 16, Pad, Pad>>
    ELSE IF Len(bs) = 2
         THEN <<bs[1] \div 4, (bs[1] % 4) * 16 + bs[2] \div 16,
                (bs[2] % 16) * 4, Pad>>
    ELSE <<bs[1] \div 4, (bs[1] % 4) * 16 + bs[2] \div 16,
           (bs[2] % 16) * 4 + bs[3] \div 64, bs[3] % 64>>
         \o B64Encode(SubSeq(bs, 4, Len(bs)))

(* Well-formed base64 text: groups of four, padding only at the very end. *)
B64Valid(cs) ==
    /\ Len(cs) % 4 = 0
    /\ \A i \in 1..Len(cs) : cs[i] \in 0..Pad
    /\ \A i \in 1..Len(cs) : cs[i] = Pad => i >= Len(cs) - 1
    /\ Len(cs) > 0 /\ cs[Len(cs) - 1] = Pad => cs[Len(cs)] = Pad

RECURSIVE B64Decode(_)
B64Decode(cs) ==
    IF Len(cs) = 0 THEN <<>>
    ELSE LET a == cs[1]
             b == cs[2]
             c == cs[3]
             d == cs[4]
             b1 == a * 4 + b \div 16
             b2 == (b % 16) * 16 + (IF c = Pad THEN 0 ELSE c \div 4)
             b3 == (IF c = Pad THEN 0 ELSE (c % 4) * 64)
                   + (IF d = Pad THEN 0 ELSE d)
         IN  IF c = Pad THEN <<b1>>
             ELSE IF d = Pad THEN <<b1, b2>>
             ELSE <<b1, b2, b3>> \o B64Decode(SubSeq(cs, 5, Len(cs)))

(* pydantic Base64Bytes: validation decodes base64 text into bytes,        *)
(* serialization encodes the bytes again.  The line break the encoder     *)
(* appends, and the decoder skips, is not represented.                    *)
Base64Bytes(v) ==
    IF v.t = "text" /\ B64Valid(v.v) THEN FOk(PyBytes(B64Decode(v.v)))
    ELSE FErr

Base64Bytes_dump(x) == Text(B64Encode(x.v))

----------------------------------------------------------------------------
(* datetime.time, wire form `HH:MM[:SS]` given as its numeric parts.       *)

TimeStr(parts) == [t |-> "timestr", v |-> parts]
PyTime(h, m, s) == [h |-> h, m |-> m, s |-> s, t |-> "time"]

TimeField(v) ==
    IF /\ v.t = "timestr"
       /\ Len(v.v) \in {2, 3}
       /\ v.v[1] \in 0..23
       /\ v.v[2] \in 0..59
       /\ (Len(v.v) = 3 => v.v[3] \in 0..59)
    THEN FOk(PyTime(v.v[1], v.v[2], IF Len(v.v) = 3 THEN v.v[3] ELSE 0))
    ELSE FErr

(* time.isoformat(): always HH:MM:SS *)
Time_dump(x) == TimeStr(<<x.h, x.m, x.s>>)

(* datetime, wire form ISO8601 given as <<year, month, day, hour, min, sec>> *)
DateTimeStr(parts) == [t |-> "dtstr", v |-> parts]

DateTimeField(v) ==
    IF /\ v.t = "dtstr"
       /\ Len(v.v) = 6
       /\ v.v[1] \in 1..9999
       /\ v.v[2] \in 1..12
       /\ v.v[3] \in 1..31
       /\ v.v[4] \in 0..23
       /\ v.v[5] \in 0..59
       /\ v.v[6] \in 0..59
    THEN FOk([t |-> "datetime", v |-> v.v])
    ELSE FErr

----------------------------------------------------------------------------
(* Field(min_items=n) / min_length on a list or a string. *)
MinLength(f, n) == IF f.ok /\ Len(f.val.v) < n THEN FErr ELSE f
MaxLength(f, n) == IF f.ok /\ Len(f.val.v) > n THEN FErr ELSE f

(* class AosTimeSlot *)
AosTimeSlot(b) ==
    IF b.t # "obj" THEN NotAnObject
    ELSE LET start == Required(Get(b, "start"), TimeField(Get(b, "start")))
             end == Required(Get(b, "end"), TimeField(Get(b, "end")))
         IN  Result(Bad("start", start) \cup Bad("end", end),
                    [end |-> end.val, start |-> start.val,
                     t |-> "AosTimeSlot"])

AosTimeSlot_dump(r) ==
    JObj([end |-> Time_dump(r.end), start |-> Time_dump(r.start)])

(* class AosTimetableItem *)
AosTimetableItem_day_of_week(v) == Required(v, IntField(v))

AosTimetableItem_time_slots(v) ==
    Required(v, MinLength(ListOf(v, [i \in Items(v) |-> AosTimeSlot(v.v[i])]),
                          1))

AosTimetableItem(b) ==
    IF b.t # "obj" THEN NotAnObject
    ELSE LET day == AosTimetableItem_day_of_week(Get(b, "dayOfWeek"))
             slots == AosTimetableItem_time_slots(Get(b, "timeSlots"))
         IN  Result(Bad("dayOfWeek", day) \cup Bad("timeSlots", slots),
                    [day_of_week |-> day.val,
                     t |-> "AosTimetableItem", time_slots |-> slots.val])

AosTimetableItem_dump(r) ==
    JObj([dayOfWeek |-> r.day_of_week,
          timeSlots |-> JList([i \in 1..Len(r.time_slots.v) |->
                                  AosTimeSlot_dump(r.time_slots.v[i])])])

(* class AosScheduleRule *)
ScheduleTypes == {"force", "trigger", "timetable"}

AosScheduleRule_ttl(v) == Required(v, IntField(v))
AosScheduleRule_type(v) == Required(v, LiteralField(v, ScheduleTypes))
AosScheduleRule_timetable(v) ==
    DefaultNone(v, ListOf(v, [i \in Items(v) |-> AosTimetableItem(v.v[i])]))

AosScheduleRule(b) ==
    IF b.t # "obj" THEN NotAnObject
    ELSE LET ttl == AosScheduleRule_ttl(Get(b, "ttl"))
             type == AosScheduleRule_type(Get(b, "type"))
             timetable == AosScheduleRule_timetable(Get(b, "timetable"))
         IN  Result(Bad("ttl", ttl) \cup Bad("type", type)
                        \cup Bad("timetable", timetable),
                    [t |-> "AosScheduleRule", timetable |-> timetable.val,
                     ttl |-> ttl.val, type |-> type.val])

(* Serialization of a field holding None: `null`, or the key left out     *)
(* when the caller asks for exclude_none.                                  *)
Opt(x, dumped) == IF x = None THEN Null ELSE dumped

Strip(f, exclude_none) ==
    IF exclude_none
    THEN [k \in {n \in DOMAIN f : f[n] # Null} |-> f[k]]
    ELSE f

AosScheduleRule_dump(r, exclude_none) ==
    LET items == [i \in Items(r.timetable) |->
                    AosTimetableItem_dump(r.timetable.v[i])]
    IN  JObj(Strip([timetable |-> Opt(r.timetable, JList(items)),
                    ttl |-> r.ttl, type |-> r.type], exclude_none))

----------------------------------------------------------------------------
(* Inputs for the schedule fragments *)

SlotBodies ==
    {JObj([end |-> TimeStr(<<17, 30, 15>>), start |-> TimeStr(<<9, 0>>)]),
     JObj([end |-> TimeStr(<<24, 0>>), start |-> TimeStr(<<9, 0>>)]),
     JObj([start |-> TimeStr(<<9, 0>>)])}

ItemBody(day, slots) ==
    JObj([k \in {n \in {"dayOfWeek", "timeSlots"} :
                    (IF n = "dayOfWeek" THEN day ELSE slots) # Absent}
             |-> IF k = "dayOfWeek" THEN day ELSE slots])

ItemBodies ==
    {ItemBody(d, s) :
        d \in {Absent, Null, JInt(-1), JInt(0), JInt(1), JInt(7), JInt(8)},
        s \in {Absent, Null}
               \cup {JList(q) : q \in SeqsUpTo(SlotBodies, 0, MaxList)}}

GoodSlot == JObj([end |-> TimeStr(<<17, 30, 15>>),
                  start |-> TimeStr(<<9, 0>>)])

TimetableValues ==
    LET SampleItems == {ItemBody(JInt(1), JList(<<GoodSlot>>)),
                        ItemBody(JInt(7), JList(<<GoodSlot, GoodSlot>>)),
                        ItemBody(JInt(1), JList(<<>>))}
    IN  {Absent, Null}
            \cup {JList(s) : s \in SeqsUpTo(SampleItems, 0, MaxList)}

(* A JSON object from a record of candidate values, absent keys left out. *)
MkObj(f) == JObj([k \in {n \in DOMAIN f : f[n] # Absent} |-> f[k]])

RuleBodies ==
    {MkObj([timetable |-> tt, ttl |-> l, type |-> y]) :
        l \in {Absent, JInt(3600)},
        y \in {JStr("force"), JStr("trigger"), JStr("timetable"),
               JStr("periodic")},
        tt \in TimetableValues}

----------------------------------------------------------------------------
(* Primitive types of cloud_common.protocols.unit.types, as the           *)
(* specification describes them.                                           *)

(* Identifiers: non-empty strings. *)
IdField(v) == IF v.t = "str" /\ v.v # "" THEN FOk(v) ELSE FErr

(* Instance number, file size: a non-negative integer. *)
NonNegIntField(v) == IF v.t = "int" /\ v.v >= 0 THEN FOk(v) ELSE FErr

(* URL list: a non-empty list of strings. *)
UrlsField(v) ==
    IF v.t = "list" /\ Len(v.v) > 0 /\ (\A i \in 1..Len(v.v) : v.v[i].t = "str")
    THEN FOk(v) ELSE FErr

(* Optional annotations: absent and null both give None. *)
AnnotationsOptional(v) ==
    IF v \in {Absent, Null} THEN FOk(None) ELSE StrField(v)

(* Node desired status *)
NodeStates == {"provisioned", "paused", "active"}

(* AosSensitiveBytes: base64 text on the wire, a secret byte buffer in    *)
(* memory whose textual representation is a fixed mask.                    *)
Secret(bs) == [t |-> "secret", v |-> bs]

AosSensitiveBytes(v) ==
    IF v.t = "text" /\ B64Valid(v.v) THEN FOk(Secret(B64Decode(v.v)))
    ELSE FErr

get_secret_value(x) == x.v

AosSensitiveBytes_display(x) == JStr("**********")

(* UnitConfig: an object, kept as given. *)
UnitConfig(b) ==
    IF b.t # "obj" THEN NotAnObject
    ELSE Result({}, [raw |-> b.f, t |-> "UnitConfig"])

UnitConfig_dump(r) == JObj(r.raw)

----------------------------------------------------------------------------
(* class AosReceiverInfo *)
AosReceiverInfo(b) ==
    IF b.t # "obj" THEN NotAnObject
    ELSE LET serial == Required(Get(b, "serial"), StrField(Get(b, "serial")))
             issuer == Required(Get(b, "issuer"),
                                Base64Bytes(Get(b, "issuer")))
         IN  Result(Bad("serial", serial) \cup Bad("issuer", issuer),
                    [issuer |-> issuer.val,
                     serial |-> serial.val, t |-> "AosReceiverInfo"])

AosReceiverInfo_dump(r) ==
    JObj([issuer |-> Base64Bytes_dump(r.issuer), serial |-> r.serial])

(* class AosDecryptionInfo *)
BlockAlgs == {"AES256/CBC/pkcs7"}
AsymAlgs == {"RSA/PKCS1v1_5", "RSA/PSS"}

AosDecryptionInfo_block_alg(v) ==
    IF v = Absent THEN FOk(JStr("AES256/CBC/pkcs7"))
    ELSE LiteralField(v, BlockAlgs)

AosDecryptionInfo_asym_alg(v) ==
    IF v = Absent THEN FOk(JStr("RSA/PKCS1v1_5"))
    ELSE LiteralField(v, AsymAlgs)

AosDecryptionInfo_block_iv(v) == Required(v, AosSensitiveBytes(v))
AosDecryptionInfo_block_key(v) == Required(v, AosSensitiveBytes(v))
AosDecryptionInfo_receiver_info(v) == Required(v, ModelOf(AosReceiverInfo(v)))

AosDecryptionInfo(b) ==
    IF b.t # "obj" THEN NotAnObject
    ELSE LET alg == AosDecryptionInfo_block_alg(Get(b, "blockAlg"))
             iv == AosDecryptionInfo_block_iv(Get(b, "blockIv"))
             key == AosDecryptionInfo_block_key(Get(b, "blockKey"))
             asym == AosDecryptionInfo_asym_alg(Get(b, "asymAlg"))
             recv == AosDecryptionInfo_receiver_info(Get(b, "receiverInfo"))
         IN  Result(Bad("blockAlg", alg) \cup Bad("blockIv", iv)
                        \cup Bad("blockKey", key) \cup Bad("asymAlg", asym)
                        \cup Bad("receiverInfo", recv),
                    [asym_alg |-> asym.val, block_alg |-> alg.val,
                     block_iv |-> iv.val, block_key |-> key.val,
                     receiver_info |-> recv.val, t |-> "AosDecryptionInfo"])

(* A serializer that would emit the secret bytes as they are. *)
dump_secret_raw(struct_value) == Text(get_secret_value(struct_value))

(* @field_serializer('block_key', 'block_iv', when_used='json') *)
dump_secret(struct_value) == Text(B64Encode(get_secret_value(struct_value)))

AosDecryptionInfo_dump(r) ==
    JObj([asymAlg |-> r.asym_alg,
          blockAlg |-> r.block_alg,
          blockIv |-> dump_secret(r.block_iv),
          blockKey |-> dump_secret(r.block_key),
          receiverInfo |-> AosReceiverInfo_dump(r.receiver_info)])

(* repr(record): every field by its own representation; the serializer   *)
(* above is for JSON only, so the secret fields show as the buffer's own  *)
(* representation.                                                         *)
AosDecryptionInfo_repr(r) ==
    [asym_alg |-> r.asym_alg,
     block_alg |-> r.block_alg,
     block_iv |-> AosSensitiveBytes_display(r.block_iv),
     block_key |-> AosSensitiveBytes_display(r.block_key),
     receiver_info |-> r.receiver_info]

(* class AosCertificateInfo *)
AosCertificateInfo(b) ==
    IF b.t # "obj" THEN NotAnObject
    ELSE LET cert == Required(Get(b, "certificate"),
                              Base64Bytes(Get(b, "certificate")))
             fp == Required(Get(b, "fingerprint"),
                            StrField(Get(b, "fingerprint")))
         IN  Result(Bad("certificate", cert) \cup Bad("fingerprint", fp),
                    [certificate |-> cert.val,
                     fingerprint |-> fp.val, t |-> "AosCertificateInfo"])

AosCertificateInfo_dump(r) ==
    JObj([certificate |-> Base64Bytes_dump(r.certificate),
          fingerprint |-> r.fingerprint])

(* list[str] *)
StrListField(v) ==
    IF v.t = "list" /\ (\A i \in 1..Len(v.v) : v.v[i].t \in {"str", "text"})
    THEN FOk(PyList(v.v)) ELSE FErr

StrList_dump(x) == JList(x.v)

(* class AosCertificateChainInfo *)
AosCertificateChainInfo(b) ==
    IF b.t # "obj" THEN NotAnObject
    ELSE LET name == Required(Get(b, "name"), StrField(Get(b, "name")))
             fps == Required(Get(b, "fingerprints"),
                             StrListField(Get(b, "fingerprints")))
         IN  Result(Bad("name", name) \cup Bad("fingerprints", fps),
                    [fingerprints |-> fps.val,
                     name |-> name.val, t |-> "AosCertificateChainInfo"])

AosCertificateChainInfo_dump(r) ==
    JObj([fingerprints |-> StrList_dump(r.fingerprints), name |-> r.name])

(* class AosSign *)

(* A wider set than the class declares. *)
SignAlgs_wide == {"RSA/SHA256", "EC/SHA256", "RSA/SHA512"}

SignAlgs == {"RSA/SHA256", "EC/SHA256"}

AosSign_alg(v) == Required(v, LiteralField(v, SignAlgs))

AosSign(b) ==
    IF b.t # "obj" THEN NotAnObject
    ELSE LET chain == Required(Get(b, "chainName"),
                               StrField(Get(b, "chainName")))
             alg == AosSign_alg(Get(b, "alg"))
             value == Required(Get(b, "value"), Base64Bytes(Get(b, "value")))
             ts == Required(Get(b, "trustedTimestamp"),
                            DateTimeField(Get(b, "trustedTimestamp")))
             ocsp == DefaultNone(Get(b, "ocspValues"),
                                 Base64Bytes(Get(b, "ocspValues")))
         IN  Result(Bad("chainName", chain) \cup Bad("alg", alg)
                        \cup Bad("value", value)
                        \cup Bad("trustedTimestamp", ts)
                        \cup Bad("ocspValues", ocsp),
                    [alg |-> alg.val, chain_name |-> chain.val,
                     ocsp_values |-> ocsp.val,
                     t |-> "AosSign", timestamp |-> ts.val,
                     value |-> value.val])

----------------------------------------------------------------------------
(* class AosDesiredComponentInfo / AosDesiredLayerInfo /                   *)
(* AosDesiredServiceInfo: identity, version, urls, digest, size and the   *)
(* decryption info.                                                        *)

AosDesiredComponentInfo(b) ==
    IF b.t # "obj" THEN NotAnObject
    ELSE LET id == Required(Get(b, "id"), IdField(Get(b, "id")))
             type == Required(Get(b, "type"), IdField(Get(b, "type")))
             version == Required(Get(b, "version"),
                                 IdField(Get(b, "version")))
             annotations == AnnotationsOptional(Get(b, "annotations"))
             urls == Required(Get(b, "urls"), UrlsField(Get(b, "urls")))
             sha256 == Required(Get(b, "sha256"), IdField(Get(b, "sha256")))
             size == Required(Get(b, "size"), NonNegIntField(Get(b, "size")))
             info == AosDecryptionInfo(Get(b, "decryptionInfo"))
             dec == Required(Get(b, "decryptionInfo"), ModelOf(info))
         IN  Result(Bad("id", id) \cup Bad("type", type)
                    \cup Bad("version", version)
                        \cup Bad("annotations", annotations)
                        \cup Bad("urls", urls)
                        \cup Bad("sha256", sha256) \cup Bad("size", size)
                        \cup Bad("decryptionInfo", dec),
                    [annotations |-> annotations.val,
                     decryption_info |-> dec.val,
                     id |-> id.val, sha256 |-> sha256.val,
                     size |-> size.val, t |-> "AosDesiredComponentInfo",
                     type |-> type.val, urls |-> urls.val,
                     version |-> version.val])

AosDesiredComponentInfo_dump(r, exclude_none) ==
    JObj(Strip([annotations |-> Opt(r.annotations, r.annotations),
                decryptionInfo |-> AosDecryptionInfo_dump(r.decryption_info),
                id |-> r.id,
                sha256 |-> r.sha256, size |-> r.size,
                type |-> r.type, urls |-> r.urls,
                version |-> r.version],
               exclude_none))

AosDesiredLayerInfo(b) ==
    IF b.t # "obj" THEN NotAnObject
    ELSE LET id == Required(Get(b, "id"), IdField(Get(b, "id")))
             version == Required(Get(b, "version"),
                                 IdField(Get(b, "version")))
             digest == Required(Get(b, "digest"), IdField(Get(b, "digest")))
             urls == Required(Get(b, "urls"), UrlsField(Get(b, "urls")))
             sha256 == Required(Get(b, "sha256"), IdField(Get(b, "sha256")))
             size == Required(Get(b, "size"), NonNegIntField(Get(b, "size")))
             info == AosDecryptionInfo(Get(b, "decryptionInfo"))
             dec == Required(Get(b, "decryptionInfo"), ModelOf(info))
         IN  Result(Bad("id", id) \cup Bad("version", version)
                        \cup Bad("digest", digest) \cup Bad("urls", urls)
                        \cup Bad("sha256", sha256) \cup Bad("size", size)
                        \cup Bad("decryptionInfo", dec),
                    [decryption_info |-> dec.val, digest |-> digest.val,
                     id |-> id.val, sha256 |-> sha256.val,
                     size |-> size.val, t |-> "AosDesiredLayerInfo",
                     urls |-> urls.val,
                     version |-> version.val])

AosDesiredLayerInfo_dump(r) ==
    JObj([decryptionInfo |-> AosDecryptionInfo_dump(r.decryption_info),
          digest |-> r.digest, id |-> r.id,
          sha256 |-> r.sha256, size |-> r.size, urls |-> r.urls,
          version |-> r.version])

AosDesiredServiceInfo(b) ==
    IF b.t # "obj" THEN NotAnObject
    ELSE LET id == Required(Get(b, "id"), IdField(Get(b, "id")))
             provider == Required(Get(b, "providerId"),
                                  IdField(Get(b, "providerId")))
             version == Required(Get(b, "version"),
                                 IdField(Get(b, "version")))
             urls == Required(Get(b, "urls"), UrlsField(Get(b, "urls")))
             sha256 == Required(Get(b, "sha256"), IdField(Get(b, "sha256")))
             size == Required(Get(b, "size"), NonNegIntField(Get(b, "size")))
             info == AosDecryptionInfo(Get(b, "decryptionInfo"))
             dec == Required(Get(b, "decryptionInfo"), ModelOf(info))
         IN  Result(Bad("id", id) \cup Bad("providerId", provider)
                        \cup Bad("version", version) \cup Bad("urls", urls)
                        \cup Bad("sha256", sha256) \cup Bad("size", size)
                        \cup Bad("decryptionInfo", dec),
                    [decryption_info |-> dec.val,
                     provider_id |-> provider.val,
                     service_id |-> id.val, sha256 |-> sha256.val,
                     size |-> size.val, t |-> "AosDesiredServiceInfo",
                     urls |-> urls.val,
                     version |-> version.val])

AosDesiredServiceInfo_dump(r) ==
    JObj([decryptionInfo |-> AosDecryptionInfo_dump(r.decryption_info),
          id |-> r.service_id,
          providerId |-> r.provider_id, sha256 |-> r.sha256, size |-> r.size,
          urls |-> r.urls,
          version |-> r.version])

----------------------------------------------------------------------------
(* class AosDesiredInstanceInfo *)

PRIORITY_GE == 0
PRIORITY_LT == 1000000
NUM_INSTANCES_DEFAULT == 1
NUM_INSTANCES_GT == 0

(* priority with le in place of lt. *)
AosDesiredInstanceInfo_priority_le(v) ==
    Required(v, IF v.t = "int" /\ v.v >= PRIORITY_GE /\ v.v <= PRIORITY_LT
                THEN FOk(v) ELSE FErr)

AosDesiredInstanceInfo_priority(v) ==
    Required(v, IF v.t = "int" /\ v.v >= PRIORITY_GE /\ v.v < PRIORITY_LT
                THEN FOk(v) ELSE FErr)

AosDesiredInstanceInfo_num_instances(v) ==
    IF v = Absent THEN FOk(JInt(NUM_INSTANCES_DEFAULT))
    ELSE IF v.t = "int" /\ v.v > NUM_INSTANCES_GT THEN FOk(v) ELSE FErr

AosDesiredInstanceInfo_labels(v) == DefaultNone(v, StrListField(v))

AosDesiredInstanceInfo(b) ==
    IF b.t # "obj" THEN NotAnObject
    ELSE LET service == Required(Get(b, "serviceId"),
                                 IdField(Get(b, "serviceId")))
             subject == Required(Get(b, "subjectId"),
                                 IdField(Get(b, "subjectId")))
             priority == AosDesiredInstanceInfo_priority(Get(b, "priority"))
             num ==
                 AosDesiredInstanceInfo_num_instances(Get(b, "numInstances"))
             labels == AosDesiredInstanceInfo_labels(Get(b, "labels"))
         IN  Result(Bad("serviceId", service) \cup Bad("subjectId", subject)
                        \cup Bad("priority", priority)
                        \cup Bad("numInstances", num)
                        \cup Bad("labels", labels),
                    [labels |-> labels.val, num_instances |-> num.val,
                     priority |-> priority.val, service_id |-> service.val,
                     subject_id |-> subject.val,
                     t |-> "AosDesiredInstanceInfo"])

AosDesiredInstanceInfo_dump(r, exclude_none) ==
    JObj(Strip([labels |-> Opt(r.labels, StrList_dump(r.labels)),
                numInstances |-> r.num_instances,
                priority |-> r.priority, serviceId |-> r.service_id,
                subjectId |-> r.subject_id], exclude_none))

(* class AosNodeDesiredState *)
AosNodeDesiredState(b) ==
    IF b.t # "obj" THEN NotAnObject
    ELSE LET node == Required(Get(b, "nodeId"), IdField(Get(b, "nodeId")))
             state == Required(Get(b, "state"),
                               LiteralField(Get(b, "state"), NodeStates))
         IN  Result(Bad("nodeId", node) \cup Bad("state", state),
                    [node_id |-> node.val,
                     state |-> state.val, t |-> "AosNodeDesiredState"])

AosNodeDesiredState_dump(r) == JObj([nodeId |-> r.node_id, state |-> r.state])

----------------------------------------------------------------------------
(* class AosDesiredStatus *)

AosDesiredStatus_message_type(v) ==
    Required(v, LiteralField(v, {"desiredStatus"}))

AosDesiredStatus_nodes(v) ==
    DefaultNone(v, ListOf(v,
                          [i \in Items(v) |-> AosNodeDesiredState(v.v[i])]))
AosDesiredStatus_unit_config(v) == DefaultNone(v, ModelOf(UnitConfig(v)))
AosDesiredStatus_components(v) ==
    DefaultNone(v, ListOf(v,
                          [i \in Items(v) |-> AosDesiredComponentInfo(v.v[i])]))
AosDesiredStatus_layers(v) ==
    DefaultNone(v, ListOf(v,
                          [i \in Items(v) |-> AosDesiredLayerInfo(v.v[i])]))
AosDesiredStatus_services(v) ==
    DefaultNone(v, ListOf(v,
                          [i \in Items(v) |-> AosDesiredServiceInfo(v.v[i])]))
AosDesiredStatus_instances(v) ==
    DefaultNone(v, ListOf(v,
                          [i \in Items(v) |-> AosDesiredInstanceInfo(v.v[i])]))
AosDesiredStatus_fota_schedule(v) ==
    DefaultNone(v, ModelOf(AosScheduleRule(v)))
AosDesiredStatus_sota_schedule(v) ==
    DefaultNone(v, ModelOf(AosScheduleRule(v)))
AosDesiredStatus_certificates(v) ==
    DefaultNone(v, ListOf(v, [i \in Items(v) |-> AosCertificateInfo(v.v[i])]))
AosDesiredStatus_certificate_chains(v) ==
    DefaultNone(v, ListOf(v,
                          [i \in Items(v) |-> AosCertificateChainInfo(v.v[i])]))

AosDesiredStatus(b) ==
    IF b.t # "obj" THEN NotAnObject
    ELSE LET mt == AosDesiredStatus_message_type(Get(b, "messageType"))
             nodes == AosDesiredStatus_nodes(Get(b, "nodes"))
             uc == AosDesiredStatus_unit_config(Get(b, "unitConfig"))
             components == AosDesiredStatus_components(Get(b, "components"))
             layers == AosDesiredStatus_layers(Get(b, "layers"))
             services == AosDesiredStatus_services(Get(b, "services"))
             instances == AosDesiredStatus_instances(Get(b, "instances"))
             fota == AosDesiredStatus_fota_schedule(Get(b, "fotaSchedule"))
             sota == AosDesiredStatus_sota_schedule(Get(b, "sotaSchedule"))
             certs == AosDesiredStatus_certificates(Get(b, "certificates"))
             chains == AosDesiredStatus_certificate_chains(
                           Get(b, "certificateChains"))
         IN  Result(Bad("messageType", mt) \cup Bad("nodes", nodes)
                        \cup Bad("unitConfig", uc)
                        \cup Bad("components", components)
                        \cup Bad("layers", layers)
                        \cup Bad("services", services)
                        \cup Bad("instances", instances)
                        \cup Bad("fotaSchedule", fota)
                        \cup Bad("sotaSchedule", sota)
                        \cup Bad("certificates", certs)
                        \cup Bad("certificateChains", chains),
                    [certificate_chains |-> chains.val,
                     certificates |-> certs.val,
                     components |-> components.val,
                     fota_schedule |-> fota.val,
                     instances |-> instances.val, layers |-> layers.val,
                     message_type |-> mt.val, nodes |-> nodes.val,
                     services |-> services.val, sota_schedule |-> sota.val,
                     t |-> "AosDesiredStatus",
                     unit_config |-> uc.val])

(* Serialization of a list of nested records. *)
DumpList(x, dumped) ==
    IF x = None THEN Null ELSE JList([i \in Items(x) |-> dumped[i]])

(* model_dump(mode='json', by_alias=True, exclude_none=...) *)
AosDesiredStatus_dump(r, exclude_none) ==
    LET Rule(x) == AosScheduleRule_dump(x, exclude_none)
        chains == [i \in Items(r.certificate_chains) |->
                    AosCertificateChainInfo_dump(r.certificate_chains.v[i])]
        certs == [i \in Items(r.certificates) |->
                    AosCertificateInfo_dump(r.certificates.v[i])]
        components == [i \in Items(r.components) |->
                    AosDesiredComponentInfo_dump(r.components.v[i],
                                                 exclude_none)]
        instances == [i \in Items(r.instances) |->
                    AosDesiredInstanceInfo_dump(r.instances.v[i],
                                                exclude_none)]
        layers == [i \in Items(r.layers) |->
                    AosDesiredLayerInfo_dump(r.layers.v[i])]
        nodes == [i \in Items(r.nodes) |->
                    AosNodeDesiredState_dump(r.nodes.v[i])]
        services == [i \in Items(r.services) |->
                    AosDesiredServiceInfo_dump(r.services.v[i])]
    IN  JObj(Strip([certificateChains |->
                        DumpList(r.certificate_chains, chains),
                    certificates |-> DumpList(r.certificates, certs),
                    components |-> DumpList(r.components, components),
                    fotaSchedule |-> Opt(r.fota_schedule,
                                         Rule(r.fota_schedule)),
                    instances |-> DumpList(r.instances, instances),
                    layers |-> DumpList(r.layers, layers),
                    messageType |-> r.message_type,
                    nodes |-> DumpList(r.nodes, nodes),
                    services |-> DumpList(r.services, services),
                    sotaSchedule |-> Opt(r.sota_schedule,
                                         Rule(r.sota_schedule)),
                    unitConfig |->
                        Opt(r.unit_config, UnitConfig_dump(r.unit_config))],
                   exclude_none))

----------------------------------------------------------------------------
(* state.py *)

DATA_LENGTH_256 == 256

ChecksumField(v) ==
    MaxLength(MinLength(IF v.t = "text" THEN FOk(v) ELSE FErr, 1),
              DATA_LENGTH_256)

AosNewState_message_type(v) == Required(v, LiteralField(v, {"newState"}))

(* AosUpdateState without its own message_type: the inherited one. *)
AosUpdateState_message_type_inherited(v) == AosNewState_message_type(v)

AosUpdateState_message_type(v) ==
    Required(v, LiteralField(v, {"updateState"}))

(* The fields AosUpdateState inherits from AosNewState unchanged. *)
StateErrors(b) ==
    Bad("serviceId",
        Required(Get(b, "serviceId"), IdField(Get(b, "serviceId"))))
    \cup Bad("subjectId",
             Required(Get(b, "subjectId"), IdField(Get(b, "subjectId"))))
    \cup Bad("instance",
             Required(Get(b, "instance"), NonNegIntField(Get(b, "instance"))))
    \cup Bad("stateChecksum",
             Required(Get(b, "stateChecksum"),
                      ChecksumField(Get(b, "stateChecksum"))))
    \cup Bad("state", Required(Get(b, "state"), StrField(Get(b, "state"))))

StateRecord(b, name) ==
    [checksum |-> Get(b, "stateChecksum"), instance |-> Get(b, "instance"),
     message_type |-> Get(b, "messageType"),
     service_id |-> Get(b, "serviceId"),
     state |-> Get(b, "state"), subject_id |-> Get(b, "subjectId"),
     t |-> name]

AosNewState(b) ==
    IF b.t # "obj" THEN NotAnObject
    ELSE Result(Bad("messageType",
                    AosNewState_message_type(Get(b, "messageType")))
                    \cup StateErrors(b),
                StateRecord(b, "AosNewState"))

AosUpdateState(b) ==
    IF b.t # "obj" THEN NotAnObject
    ELSE Result(Bad("messageType",
                    AosUpdateState_message_type(Get(b, "messageType")))
                    \cup StateErrors(b),
                StateRecord(b, "AosUpdateState"))

AosNewState_dump(r) ==
    JObj([instance |-> r.instance, messageType |-> r.message_type,
          serviceId |-> r.service_id, state |-> r.state,
          stateChecksum |-> r.checksum, subjectId |-> r.subject_id])

AcceptanceResults == {"accepted", "rejected"}

AosStateAcceptance(b) ==
    IF b.t # "obj" THEN NotAnObject
    ELSE LET mt == Required(Get(b, "messageType"),
                            LiteralField(Get(b, "messageType"),
                                         {"stateAcceptance"}))
             service == Required(Get(b, "serviceId"),
                                 IdField(Get(b, "serviceId")))
             subject == Required(Get(b, "subjectId"),
                                 IdField(Get(b, "subjectId")))
             instance == Required(Get(b, "instance"),
                                  NonNegIntField(Get(b, "instance")))
             checksum == Required(Get(b, "checksum"),
                                  ChecksumField(Get(b, "checksum")))
             result == Required(Get(b, "result"),
                                LiteralField(Get(b, "result"),
                                             AcceptanceResults))
             reason == Required(Get(b, "reason"), StrField(Get(b, "reason")))
         IN  Result(Bad("messageType", mt) \cup Bad("serviceId", service)
                        \cup Bad("subjectId", subject)
                        \cup Bad("instance", instance)
                        \cup Bad("checksum", checksum)
                        \cup Bad("result", result)
                        \cup Bad("reason", reason),
                    [checksum |-> checksum.val, instance |-> instance.val,
                     message_type |-> mt.val, reason |-> reason.val,
                     result |-> result.val, service_id |-> service.val,
                     subject_id |-> subject.val, t |-> "AosStateAcceptance"])

AosStateAcceptance_dump(r) ==
    JObj([checksum |-> r.checksum, instance |-> r.instance,
          messageType |-> r.message_type, reason |-> r.reason,
          result |-> r.result, serviceId |-> r.service_id,
          subjectId |-> r.subject_id])

BoolField(v) == IF v.t = "bool" THEN FOk(v) ELSE FErr

AosStateRequest(b) ==
    IF b.t # "obj" THEN NotAnObject
    ELSE LET mt == Required(Get(b, "messageType"),
                            LiteralField(Get(b, "messageType"),
                                         {"stateRequest"}))
             service == Required(Get(b, "serviceId"),
                                 IdField(Get(b, "serviceId")))
             subject == Required(Get(b, "subjectId"),
                                 IdField(Get(b, "subjectId")))
             instance == Required(Get(b, "instance"),
                                  NonNegIntField(Get(b, "instance")))
             default == Required(Get(b, "default"),
                                 BoolField(Get(b, "default")))
         IN  Result(Bad("messageType", mt) \cup Bad("serviceId", service)
                        \cup Bad("subjectId", subject)
                        \cup Bad("instance", instance)
                        \cup Bad("default", default),
                    [default |-> default.val, instance |-> instance.val,
                     message_type |-> mt.val, service_id |-> service.val,
                     subject_id |-> subject.val, t |-> "AosStateRequest"])

AosStateRequest_dump(r) ==
    JObj([default |-> r.default, instance |-> r.instance,
          messageType |-> r.message_type, serviceId |-> r.service_id,
          subjectId |-> r.subject_id])

----------------------------------------------------------------------------
(* header.py *)

PROTOCOL_VERSION == 6

(* version as a plain int rather than Literal[6]. *)
AosUnitHeader_version_int(v) == Required(v, IntField(v))

AosUnitHeader_version(v) ==
    Required(v,
             IF v.t = "int" /\ v.v = PROTOCOL_VERSION THEN FOk(v) ELSE FErr)

AosUnitHeader(b) ==
    IF b.t # "obj" THEN NotAnObject
    ELSE LET version == AosUnitHeader_version(Get(b, "version"))
             system == Required(Get(b, "systemId"),
                                IdField(Get(b, "systemId")))
         IN  Result(Bad("version", version) \cup Bad("systemId", system),
                    [system_id |-> system.val,
                     t |-> "AosUnitHeader", version |-> version.val])

----------------------------------------------------------------------------
(* Inputs *)

ByteStrings == SeqsUpTo({0, 77, 255}, 0, MaxBytes)

B64(bs) == Text(B64Encode(bs))
BadB64 == Text(<<16, 17, 18>>)          \* three characters: not base64

GoodReceiver == JObj([issuer |-> B64(<<255, 0, 77>>),
                      serial |-> JStr("0A1B")])

DecryptionBodies ==
    {MkObj([asymAlg |-> Absent, blockAlg |-> a, blockIv |-> iv,
            blockKey |-> key, receiverInfo |-> GoodReceiver]) :
        a \in {Absent, JStr("AES256/CBC/pkcs7"), JStr("DES/ECB/none")},
        iv \in {Absent, BadB64, B64(<<>>), B64(<<0, 255>>)},
        key \in {Absent, Null, BadB64} \cup {B64(k) : k \in ByteStrings}}

GoodDecryption ==
    JObj([asymAlg |-> JStr("RSA/PSS"), blockIv |-> B64(<<0, 255>>),
          blockKey |-> B64(<<77>>), receiverInfo |-> GoodReceiver])

GoodUrls == JList(<<JStr("https://cdn.example/a")>>)

GoodComponent ==
    JObj([decryptionInfo |-> GoodDecryption, id |-> JStr("comp0"),
          sha256 |-> JStr("ab12"),
          size |-> JInt(10), type |-> JStr("rootfs"), urls |-> GoodUrls,
          version |-> JStr("1.0.0")])

GoodLayer ==
    JObj([decryptionInfo |-> GoodDecryption, digest |-> JStr("sha256:ab12"),
          id |-> JStr("layer0"), sha256 |-> JStr("ab12"),
          size |-> JInt(10), urls |-> GoodUrls,
          version |-> JStr("1.0.0")])

GoodService ==
    JObj([decryptionInfo |-> GoodDecryption, id |-> JStr("svc0"),
          providerId |-> JStr("prov0"), sha256 |-> JStr("ab12"),
          size |-> JInt(10), urls |-> GoodUrls,
          version |-> JStr("1.0.0")])

GoodInstance ==
    JObj([priority |-> JInt(10), serviceId |-> JStr("svc0"),
          subjectId |-> JStr("subj0")])

BadInstance ==
    JObj([priority |-> JInt(PRIORITY_LT), serviceId |-> JStr("svc0"),
          subjectId |-> JStr("subj0")])

GoodCertificate ==
    JObj([certificate |-> B64(<<77, 0>>), fingerprint |-> JStr("fp0")])

GoodChain ==
    JObj([fingerprints |-> JList(<<JStr("fp0")>>), name |-> JStr("chain0")])

(* What a top-level list field of desiredStatus may carry. *)
Entries(items) ==
    {Absent, Null} \cup {JList(s) : s \in SeqsUpTo(items, 0, MaxEntries)}

TimetableRule ==
    JObj([timetable |-> JList(<<ItemBody(JInt(1), JList(<<GoodSlot>>))>>),
          ttl |-> JInt(3600),
          type |-> JStr("timetable")])

DesiredBodies ==
    LET ForceRule == JObj([ttl |-> JInt(3600), type |-> JStr("force")])
        GoodNode == JObj([nodeId |-> JStr("node0"), state |-> JStr("active")])
    IN  {MkObj([certificateChains |-> ch, certificates |-> ce,
                components |-> c, instances |-> i, layers |-> l,
                messageType |-> JStr("desiredStatus"), nodes |-> n,
                services |-> sv]) :
            n \in Entries({GoodNode}), c \in Entries({GoodComponent}),
            l \in Entries({GoodLayer}), sv \in Entries({GoodService}),
            i \in Entries({GoodInstance, BadInstance}),
            ce \in Entries({GoodCertificate}), ch \in Entries({GoodChain})}
        \cup
        {MkObj([fotaSchedule |-> fota, messageType |-> mt,
                sotaSchedule |-> sota, unitConfig |-> uc]) :
            mt \in {Absent, JStr("desiredStatus"), JStr("newState")},
            uc \in {Absent, Null, JObj([version |-> JStr("2.0.0")])},
            fota \in {Absent, Null, ForceRule, TimetableRule},
            sota \in {Absent, ForceRule}}

Chars(n) == [i \in 1..n |-> "a"]

ChecksumValues ==
    {Text(Chars(0)), Text(Chars(1)), Text(Chars(DATA_LENGTH_256)),
     Text(Chars(DATA_LENGTH_256 + 1))}

StateBodies ==
    {MkObj([instance |-> i, messageType |-> mt, serviceId |-> sv,
            state |-> st, stateChecksum |-> ck,
            subjectId |-> JStr("subj0")]) :
        mt \in {Absent, JStr("newState"), JStr("updateState"),
                JStr("stateAcceptance")},
        sv \in {JStr("svc0"), JStr("")},
        i \in {Absent, JInt(0), JInt(-1)},
        ck \in ChecksumValues,
        st \in {Absent, JStr("state content")}}

AcceptanceBodies ==
    {MkObj([checksum |-> ck, instance |-> JInt(0),
            messageType |-> mt, reason |-> JStr(""), result |-> r,
            serviceId |-> JStr("svc0"), subjectId |-> JStr("subj0")]) :
        mt \in {JStr("stateAcceptance"), JStr("newState")},
        ck \in ChecksumValues,
        r \in {Absent, JStr("accepted"), JStr("rejected"), JStr("ignored")}}

RequestBodies ==
    {MkObj([default |-> d, instance |-> i,
            messageType |-> mt, serviceId |-> JStr("svc0"),
            subjectId |-> JStr("subj0")]) :
        mt \in {JStr("stateRequest"), JStr("newState")},
        i \in {JInt(0), JInt(3), JInt(-1)},
        d \in {Absent, Null, JBool(TRUE), JBool(FALSE)}}

InstanceBodies ==
    {MkObj([labels |-> l, numInstances |-> n, priority |-> p,
            serviceId |-> sv, subjectId |-> JStr("subj0")]) :
        sv \in {JStr("svc0"), JStr("")},
        p \in {Absent, Null, JInt(-1), JInt(PRIORITY_GE), JInt(1),
               JInt(PRIORITY_LT - 1), JInt(PRIORITY_LT),
               JInt(PRIORITY_LT + 1)},
        n \in {Absent, Null, JInt(-1), JInt(0), JInt(1), JInt(2)},
        l \in {Absent, Null}
               \cup {JList(q) : q \in SeqsUpTo({JStr("gpu")}, 0, MaxList)}}

SignBodies ==
    {MkObj([alg |-> a, chainName |-> c, ocspValues |-> o,
            trustedTimestamp |-> ts,
            value |-> v]) :
        c \in {Absent, JStr("chain0")},
        a \in {Absent, Null, JStr("RSA/SHA256"), JStr("EC/SHA256"),
               JStr("RSA/SHA512"), JStr("rsa/sha256")},
        v \in {Absent, BadB64, B64(<<1, 2, 3, 4>>)},
        ts \in {Absent, DateTimeStr(<<2024, 13, 1, 0, 0, 0>>),
                DateTimeStr(<<2024, 2, 29, 23, 59, 59>>)},
        o \in {Absent, Null, B64(<<9>>)}}

----------------------------------------------------------------------------
(* State machine *)

Init ==
    /\ cls = "none"
    /\ body = Absent
    /\ res = NoResult
    /\ wire = NoWire
    /\ back = NoResult
    /\ log = <<>>

(* Class.model_validate(b) on a message that has just arrived.  Every   *)
(* message is handled on its own: nothing is kept from one to the next. *)
ValidateTimetableItem ==
    /\ cls = "none"
    /\ \E b \in ItemBodies :
          /\ body' = b
          /\ res' = AosTimetableItem(b)
    /\ cls' = "AosTimetableItem"
    /\ UNCHANGED <<wire, back, log>>

ValidateScheduleRule ==
    /\ cls = "none"
    /\ \E b \in RuleBodies :
          /\ body' = b
          /\ res' = AosScheduleRule(b)
    /\ cls' = "AosScheduleRule"
    /\ UNCHANGED <<wire, back, log>>

ValidateDecryptionInfo ==
    /\ cls = "none"
    /\ \E b \in DecryptionBodies :
          /\ body' = b
          /\ res' = AosDecryptionInfo(b)
    /\ cls' = "AosDecryptionInfo"
    /\ UNCHANGED <<wire, back, log>>

ValidateSign ==
    /\ cls = "none"
    /\ \E b \in SignBodies :
          /\ body' = b
          /\ res' = AosSign(b)
    /\ cls' = "AosSign"
    /\ UNCHANGED <<wire, back, log>>

ValidateInstanceInfo ==
    /\ cls = "none"
    /\ \E b \in InstanceBodies :
          /\ body' = b
          /\ res' = AosDesiredInstanceInfo(b)
    /\ cls' = "AosDesiredInstanceInfo"
    /\ UNCHANGED <<wire, back, log>>

ValidateDesiredStatus ==
    /\ cls = "none"
    /\ \E b \in DesiredBodies :
          /\ body' = b
          /\ res' = AosDesiredStatus(b)
    /\ cls' = "AosDesiredStatus"
    /\ UNCHANGED <<wire, back, log>>

ValidateNewState ==
    /\ cls = "none"
    /\ \E b \in StateBodies :
          /\ body' = b
          /\ res' = AosNewState(b)
    /\ cls' = "AosNewState"
    /\ UNCHANGED <<wire, back, log>>

ValidateUpdateState ==
    /\ cls = "none"
    /\ \E b \in StateBodies :
          /\ body' = b
          /\ res' = AosUpdateState(b)
    /\ cls' = "AosUpdateState"
    /\ UNCHANGED <<wire, back, log>>

ValidateStateAcceptance ==
    /\ cls = "none"
    /\ \E b \in AcceptanceBodies :
          /\ body' = b
          /\ res' = AosStateAcceptance(b)
    /\ cls' = "AosStateAcceptance"
    /\ UNCHANGED <<wire, back, log>>

ValidateStateRequest ==
    /\ cls = "none"
    /\ \E b \in RequestBodies :
          /\ body' = b
          /\ res' = AosStateRequest(b)
    /\ cls' = "AosStateRequest"
    /\ UNCHANGED <<wire, back, log>>

(* The validation and the serialization of a class, by its name. *)
ValidateAs(c, b) ==
    CASE c = "AosDesiredStatus" -> AosDesiredStatus(b)
      [] c = "AosNewState" -> AosNewState(b)
      [] c = "AosUpdateState" -> AosUpdateState(b)
      [] c = "AosStateAcceptance" -> AosStateAcceptance(b)
      [] c = "AosStateRequest" -> AosStateRequest(b)
      [] c = "AosDecryptionInfo" -> AosDecryptionInfo(b)
      [] OTHER -> NoResult

DumpAs(c, r, exclude_none) ==
    CASE c = "AosDesiredStatus" -> AosDesiredStatus_dump(r, exclude_none)
      [] c = "AosNewState" -> AosNewState_dump(r)
      [] c = "AosUpdateState" -> AosNewState_dump(r)
      [] c = "AosStateAcceptance" -> AosStateAcceptance_dump(r)
      [] c = "AosStateRequest" -> AosStateRequest_dump(r)
      [] c = "AosDecryptionInfo" -> AosDecryptionInfo_dump(r)
      [] OTHER -> NoWire

MessageClasses ==
    {"AosDesiredStatus", "AosNewState", "AosUpdateState",
     "AosStateAcceptance", "AosStateRequest"}

(* record.model_dump(mode='json', by_alias=True, exclude_none=e), and the *)
(* result validated again as the same class.                              *)
RoundTrip ==
    /\ res.ok
    /\ wire = NoWire
    /\ cls \in MessageClasses \cup {"AosDecryptionInfo"}
    /\ \E e \in BOOLEAN :
          /\ wire' = DumpAs(cls, res.rec, e)
          /\ back' = ValidateAs(cls, DumpAs(cls, res.rec, e))
    /\ log' = Append(log, "dump")
    /\ UNCHANGED <<cls, body, res>>

(* record.<field> = value on a decoded AosDesiredInstanceInfo.  The class *)
(* sets no model_config (neither frozen nor validate_assignment), so the  *)
(* assignment stores the value as given.                                  *)
SetAttr ==
    /\ res.ok
    /\ cls = "AosDesiredInstanceInfo"
    /\ log = <<>>
    /\ \E f \in {"priority", "num_instances"} :
       \E v \in {JInt(-1), JInt(0), JInt(5), JInt(PRIORITY_LT)} :
          res' = [res EXCEPT !.rec[f] = v]
    /\ log' = Append(log, "setattr")
    /\ UNCHANGED <<cls, body, wire, back>>

----------------------------------------------------------------------------
(* Envelope handling: the header gate, then the dispatch on messageType   *)
(* and the body validation.                                                *)

GoodStateBody ==
    JObj([instance |-> JInt(0), messageType |-> JStr("newState"),
          serviceId |-> JStr("svc0"), state |-> JStr("state content"),
          stateChecksum |-> Text(Chars(1)), subjectId |-> JStr("subj0")])

Envelopes ==
    LET HeaderValues ==
            {MkObj([systemId |-> sy, version |-> v]) :
                v \in {Absent, JInt(PROTOCOL_VERSION - 1),
                       JInt(PROTOCOL_VERSION),
                       JInt(PROTOCOL_VERSION + 1), JStr("6")},
                sy \in {JStr("unit-0001"), JStr("")}}
        DataValues ==
            {GoodStateBody,
             [GoodStateBody EXCEPT !.f["messageType"] = JStr("updateState")],
             [GoodStateBody EXCEPT !.f["instance"] = JInt(-1)],
             [GoodStateBody EXCEPT !.f["stateChecksum"] = Text(Chars(0))],
             [GoodStateBody EXCEPT !.f["messageType"] = JStr("unitStatus")],
             JObj([default |-> JBool(TRUE), instance |-> JInt(0),
                   messageType |-> JStr("stateRequest"),
                   serviceId |-> JStr("svc0"),
                   subjectId |-> JStr("subj0")]),
             JObj([messageType |-> JStr("stateRequest")]),
             JObj([instances |-> JList(<<>>),
                   messageType |-> JStr("desiredStatus")]),
             JObj([instances |-> JList(<<BadInstance>>),
                   messageType |-> JStr("desiredStatus")]),
             JObj([serviceId |-> JStr("svc0")]),
             Null}
    IN  {JObj([data |-> d, header |-> h]) :
            h \in HeaderValues, d \in DataValues}

Receive ==
    /\ cls = "none"
    /\ \E e \in Envelopes : body' = e
    /\ cls' = "envelope"
    /\ res' = NoResult
    /\ wire' = NoWire
    /\ back' = NoResult
    /\ log' = <<"received">>

HeaderGate ==
    /\ cls = "envelope"
    /\ log = <<"received">>
    /\ res' = AosUnitHeader(Get(body, "header"))
    /\ log' = Append(log, IF AosUnitHeader(Get(body, "header")).ok
                          THEN "header_ok" ELSE "header_rejected")
    /\ UNCHANGED <<cls, body, wire, back>>

(* The class a messageType selects; "" for an unknown one. *)
Dispatch(d) ==
    LET mt == Get(d, "messageType")
    IN  IF mt.t # "str" THEN ""
        ELSE CASE mt.v = "desiredStatus" -> "AosDesiredStatus"
               [] mt.v = "newState" -> "AosNewState"
               [] mt.v = "updateState" -> "AosUpdateState"
               [] mt.v = "stateAcceptance" -> "AosStateAcceptance"
               [] mt.v = "stateRequest" -> "AosStateRequest"
               [] OTHER -> ""

BodyDecode ==
    /\ cls = "envelope"
    /\ log = <<"received", "header_ok">>
    /\ LET d == Get(body, "data")
       IN  /\ back' = ValidateAs(Dispatch(d), d)
           /\ log' = Append(log, IF Dispatch(d) = "" THEN "unknown_type"
                                 ELSE IF ValidateAs(Dispatch(d), d).ok
                                      THEN "body_ok" ELSE "body_rejected")
    /\ UNCHANGED <<cls, body, res, wire>>

----------------------------------------------------------------------------
(* Specifications *)

SpecSchedule == Init /\ [][ValidateTimetableItem \/ ValidateScheduleRule]_vars

SpecSecret == Init /\ [][ValidateDecryptionInfo \/ RoundTrip]_vars

SpecSign == Init /\ [][ValidateSign]_vars

SpecInstance == Init /\ [][ValidateInstanceInfo]_vars

SpecAssign == Init /\ [][ValidateInstanceInfo \/ SetAttr]_vars

SpecState == Init /\ [][ValidateNewState \/ ValidateUpdateState]_vars

SpecMessages ==
    Init /\ [][\/ ValidateDesiredStatus
               \/ ValidateNewState
               \/ ValidateUpdateState
               \/ ValidateStateAcceptance
               \/ ValidateStateRequest
               \/ RoundTrip]_vars

SpecGate == Init /\ [][Receive \/ HeaderGate \/ BodyDecode]_vars

Next ==
    \/ ValidateTimetableItem
    \/ ValidateScheduleRule
    \/ ValidateDecryptionInfo
    \/ ValidateSign
    \/ ValidateInstanceInfo
    \/ ValidateDesiredStatus
    \/ ValidateNewState
    \/ ValidateUpdateState
    \/ ValidateStateAcceptance
    \/ ValidateStateRequest
    \/ RoundTrip
    \/ SetAttr
    \/ Receive
    \/ HeaderGate
    \/ BodyDecode
Spec == Init /\ [][Next]_vars

----------------------------------------------------------------------------
(* Properties *)

(* C1: an AosScheduleRule with a valid ttl and a type among force,       *)
(* trigger, timetable decodes if and only if its timetable is a non-empty *)
(* list (of valid items) exactly when the type is timetable.              *)
C1_TimetableIffType ==
    LET type == Get(body, "type")
        tt == Get(body, "timetable")
    IN  (/\ cls = "AosScheduleRule"
         /\ Get(body, "ttl").t = "int"
         /\ type.t = "str" /\ type.v \in {"force", "trigger", "timetable"})
        => (res.ok <=>
               /\ (tt.t = "list" =>
                      \A i \in 1..Len(tt.v) : AosTimetableItem(tt.v[i]).ok)
               /\ (tt.t = "list" /\ Len(tt.v) > 0 <=> type.v = "timetable"))

ListFields ==
    {<<"nodes", "nodes">>, <<"components", "components">>,
     <<"layers", "layers">>,
     <<"services", "services">>, <<"instances", "instances">>,
     <<"certificates", "certificates">>,
     <<"certificateChains", "certificate_chains">>}

(* C2: for every top-level list field of AosDesiredStatus, an omitted    *)
(* field and an explicit null both decode to the "no change" value (None),*)
(* [] decodes to an empty list, and encoding keeps None and [] apart.     *)
C2_AbsentNullEmpty ==
    cls = "AosDesiredStatus" =>
        \A p \in ListFields :
            LET v == Get(body, p[1])
            IN  /\ v \in {Absent, Null, JList(<<>>)} => p[1] \notin res.errors
                /\ res.ok /\ v \in {Absent, Null} => res.rec[p[2]] = None
                /\ res.ok /\ v = JList(<<>>) => res.rec[p[2]] = PyList(<<>>)
                /\ res.ok /\ wire # NoWire /\ res.rec[p[2]] = None
                       => Get(wire, p[1]) \in {Absent, Null}
                /\ res.ok /\ wire # NoWire /\ res.rec[p[2]] = PyList(<<>>)
                       => Get(wire, p[1]) = JList(<<>>)

(* C3: for each of the five message types, encoding a valid record to its *)
(* wire form and decoding the result succeeds and yields an equal record. *)
C3_RoundTrip ==
    cls \in MessageClasses /\ wire # NoWire => back.ok /\ back.rec = res.rec

C5_VersionGate ==
    LET version == Get(Get(body, "header"), "version")
        steps == {log[i] : i \in 1..Len(log)}
    IN  cls = "envelope" =>
        /\ "header_ok" \in steps => version = JInt(6)
        /\ version # JInt(6) =>
              /\ steps \cap {"body_ok", "body_rejected", "unknown_type"} = {}
              /\ back = NoResult
              /\ Len(log) >= 2 =>
                    /\ log = <<"received", "header_rejected">>
                    /\ ~res.ok /\ res.rec = NoRecord
                    /\ "version" \in res.errors
                    /\ res.errors \subseteq {"version", "systemId"}

C5_Witness ==
    /\ cls = "envelope"
    /\ Get(Get(body, "header"), "version") = JInt(5)
    /\ Get(body, "data") = JObj([messageType |-> JStr("stateRequest")])
    /\ log = <<"received", "header_rejected">>

C7_InstanceBounds ==
    LET p == Get(body, "priority")
        n == Get(body, "numInstances")
    IN  (/\ cls = "AosDesiredInstanceInfo"
         /\ Get(body, "serviceId") = JStr("svc0")
         /\ Get(body, "labels") # Null)
        => /\ res.ok <=>
                 /\ p.t = "int" /\ p.v >= 0 /\ p.v < 1000000
                 /\ n = Absent \/ (n.t = "int" /\ n.v > 0)
           /\ res.ok =>
                 /\ res.rec.priority = p
                 /\ res.rec.num_instances = IF n = Absent THEN JInt(1) ELSE n

C7_Witness ==
    /\ cls = "AosDesiredInstanceInfo"
    /\ Get(body, "priority") = JInt(999999)
    /\ Get(body, "numInstances") = Absent
    /\ res.ok
    /\ res.rec.num_instances = JInt(1)

(* C8: an AosSign whose alg is a string outside RSA/SHA256, EC/SHA256     *)
(* fails to decode, returns no record and reports a violation on alg; an  *)
(* alg inside the set never causes a violation on alg.                    *)
C8_AlgClosedSet ==
    LET a == Get(body, "alg")
    IN  cls = "AosSign" /\ a.t = "str" =>
            IF a.v \in {"RSA/SHA256", "EC/SHA256"}
            THEN "alg" \notin res.errors
            ELSE ~res.ok /\ res.rec = NoRecord /\ "alg" \in res.errors

C8_Witness ==
    /\ cls = "AosSign"
    /\ Get(body, "alg") = JStr("RSA/SHA512")
    /\ ~res.ok
    /\ res.errors = {"alg"}

(* C9: a decoded record is immutable: whatever is done with it, it keeps  *)
(* the field values it was decoded with, and so the field constraints.    *)
C9_RecordsImmutable ==
    cls = "AosDesiredInstanceInfo" /\ res.ok =>
        /\ res.rec = AosDesiredInstanceInfo(body).rec
        /\ res.rec.priority.v >= 0 /\ res.rec.priority.v < 1000000
        /\ res.rec.num_instances.v > 0

(* C10: an AosTimetableItem decodes only if dayOfWeek is an integer in    *)
(* 1..7 and timeSlots is a list with at least one valid AosTimeSlot.      *)
C10_TimetableItemRanges ==
    LET day == Get(body, "dayOfWeek")
        slots == Get(body, "timeSlots")
    IN  cls = "AosTimetableItem" /\ res.ok =>
            /\ day.t = "int" /\ day.v \in 1..7
            /\ slots.t = "list" /\ Len(slots.v) > 0
            /\ \A i \in 1..Len(slots.v) : AosTimeSlot(slots.v[i]).ok

====
